---- MODULE Spec2Model ----
(***************************************************************************)
(* Model of the desktop application's core: the blink state machine of     *)
(* EyeTrackingEngine (core/eye_tracker.py), the local store DataManager    *)
(* (services/data_manager.py), the sync coordinator SyncManager            *)
(* (services/sync_manager.py), the lifecycle and the worker threads of     *)
(* EyeTrackingEngine, and APIClient.request (utils/api_client.py).         *)
(*                                                                         *)
(* Real numbers are scaled to integers: eye aspect ratios are in           *)
(* hundredths (0.25 is 25), confidences and strain scores in units of      *)
(* 1/ONE, and time.time() is an integer clock tick.                        *)
(***************************************************************************)
EXTENDS Integers, Sequences, FiniteSets, TLC

VARIABLES
    \* ---- EyeTrackingEngine (blink state machine) ----
    COUNTER,            \* self.COUNTER
    TOTAL_BLINKS,       \* self.TOTAL_BLINKS
    fed,                \* history: the frames handed to _detect_blink, in order
    emitted,            \* history: the BlinkEvents returned by _detect_blink since
                        \* tracking was last started, in order
    \* ---- clock ----
    now,                \* the reading time.time() / CURRENT_TIMESTAMP returns
    \* ---- DataManager ----
    local_blink_data,   \* table local_blink_data: id -> row
    local_sessions,     \* table local_sessions: id -> row
    op,                 \* history: the last DataManager call and its arguments
    encryption_key,     \* self.encryption_key: "None" or the key
    db_lock,            \* self.db_lock: the thread that holds it, or None
    db_calls,           \* the database operation each thread is in: thread -> call
    \* ---- SyncManager ----
    is_online,          \* self.is_online
    sync_in_progress,   \* self.sync_in_progress
    sync_queue,         \* table sync_queue: id -> row
    threads,            \* the threads running _perform_sync: tid -> frame
    passes_left,        \* how many more sync passes the run of the model starts
    \* ---- EyeTrackingEngine (lifecycle and workers) ----
    is_running,         \* self.is_running
    is_paused,          \* self.is_paused
    camera,             \* self.camera: "None", "open", "unopened" or "released"
    frame_queue,        \* self.frame_queue: the frame numbers queued, oldest first
    blink_queue,        \* self.blink_queue: the BlinkEvents queued, oldest first
    capture_thread,     \* the thread running _capture_frames: its position and locals
    process_thread,     \* the thread running _process_frames: its position and locals
    main_thread,        \* the caller of start_tracking / stop_tracking
    old_capture_thread, \* a capture worker of an earlier start_tracking, still alive
    old_process_thread, \* a processing worker of an earlier start_tracking, still alive
    frames_left,        \* how many more frames the camera delivers in the run of the model
    \* ---- APIClient and AuthManager ----
    req,                \* the last APIClient.request call: its inputs and its result
    is_authenticated    \* what AuthManager.is_authenticated() answers

blinkVars == <<COUNTER, TOTAL_BLINKS, fed, emitted>>
storeVars == <<local_blink_data, local_sessions, op, encryption_key, db_lock,
               db_calls>>
syncVars  == <<is_online, sync_in_progress, sync_queue, threads, passes_left>>
oldVars   == <<old_capture_thread, old_process_thread>>
engineVars == <<is_running, is_paused, camera, frame_queue, blink_queue,
                capture_thread, process_thread, main_thread, frames_left, oldVars>>
apiVars   == <<req, is_authenticated>>
vars      == <<blinkVars, now, storeVars, syncVars, engineVars, apiVars>>

\* 1.0 in the unit confidences and strain scores are kept in, chosen so that
\* the mean of up to six confidences and a fifth of it are integers.
ONE == 60 * 100

Min(a, b) == IF a < b THEN a ELSE b

(***************************************************************************)
(* EyeTrackingEngine: the blink state machine                              *)
(***************************************************************************)

EYE_AR_THRESH == 25
EYE_AR_CONSEC_FRAMES == 3

\* Number of frames fed to the state machine in one run of the model.
MaxFrames == 5

\* Eye aspect ratios a face can show: below, at and above the threshold.
EarValues == {20, 25, 30}

\* A frame is the list of eye aspect ratios of the faces found in it that
\* show at least two eyes (faces with fewer eyes are skipped by the loop).
\* <<>> is a frame without a usable face.
Frames ==
    {<<>>} \cup {<<v>> : v \in EarValues} \cup {<<v, w>> : v, w \in {20, 30}}

NoEvent == [frame_number |-> 0]

\* _calculate_blink_confidence
calculate_blink_confidence(eye_ar) ==
    IF eye_ar < EYE_AR_THRESH
    THEN Min(((EYE_AR_THRESH - eye_ar) * ONE) \div EYE_AR_THRESH, ONE)
    ELSE 0

\* The loop over the faces of one frame in _detect_blink, from face k on.
\* The result is the state after the call and the returned event.
RECURSIVE detect_faces(_, _, _, _, _)
detect_faces(faces, k, counter, total, frame_number) ==
    IF k > Len(faces)
    THEN [COUNTER |-> counter, TOTAL_BLINKS |-> total, event |-> NoEvent]
    ELSE LET eye_ar == faces[k] IN
         IF eye_ar < EYE_AR_THRESH
         THEN detect_faces(faces, k + 1, counter + 1, total, frame_number)
         ELSE IF counter >= EYE_AR_CONSEC_FRAMES
              \* the return leaves the loop before COUNTER is reset
              THEN [COUNTER |-> counter, TOTAL_BLINKS |-> total + 1,
                    event |-> [frame_number |-> frame_number,
                               eye_aspect_ratio |-> eye_ar,
                               confidence |-> calculate_blink_confidence(eye_ar)]]
              ELSE detect_faces(faces, k + 1, 0, total, frame_number)

detect_blink(faces, frame_number) ==
    detect_faces(faces, 1, COUNTER, TOTAL_BLINKS, frame_number)

\* The sleep that ends an iteration of the capture loop, in milliseconds.
FRAME_SLEEP_MS == 50

\* capture_time, the timestamp of the events of a frame, in milliseconds:
\* the time the capture loop starts its iteration for the frame when every
\* iteration takes the sleep and no longer.
capture_time(frame_number) == frame_number * FRAME_SLEEP_MS

\* The minimum inter-blink interval of the design, in milliseconds.
MIN_BLINK_INTERVAL_MS == 200

\* One frame is processed: _detect_blink is called on it and the event it
\* returns, if any, is put on the blink queue.
DetectBlink(faces) ==
    /\ Len(fed) < MaxFrames
    /\ LET r == detect_blink(faces, Len(fed) + 1) IN
       /\ COUNTER' = r.COUNTER
       /\ TOTAL_BLINKS' = r.TOTAL_BLINKS
       /\ fed' = Append(fed, faces)
       /\ emitted' = IF r.event = NoEvent THEN emitted ELSE Append(emitted, r.event)
    /\ UNCHANGED <<now, storeVars, syncVars, engineVars, apiVars>>

BlinkInit ==
    /\ COUNTER = 0
    /\ TOTAL_BLINKS = 0
    /\ fed = <<>>
    /\ emitted = <<>>

(***************************************************************************)
(* DataManager: the local store                                            *)
(***************************************************************************)

\* Largest clock reading of a run of the model.
MaxTime == 2
None == -1

\* Threads that can run _perform_sync at the same time in the model.
MaxThreads == 2
Tids == 1..MaxThreads

NoOp == [name |-> "none", session_id |-> None, arg |-> <<>>]

\* The BlinkEvents of the model: one in the minute starting at 0, one in the
\* minute starting at 60, of different confidence.
EventA == [timestamp |-> 59, confidence |-> ONE]
EventB == [timestamp |-> 60, confidence |-> ONE \div 2]

\* The event lists the callers of the model pass to store_blink_data: none,
\* one bucket with one or two events, two buckets in either order.
EventLists ==
    {<<>>, <<EventA>>, <<EventB>>, <<EventA, EventA>>, <<EventA, EventB>>,
     <<EventB, EventA>>}

\* The ids _generate_id can return: it hashes the clock reading with the
\* user id, which is fixed, so an id stands for the reading it was made from.
Ids == 0..MaxTime

\* The session ids the callers of the model pass.
SessionArgs == {0, 1}

\* The non-decreasing sequences of n clock readings from the reading t on.
RECURSIVE ClockReads(_, _)
ClockReads(t, n) ==
    IF n = 0 THEN {<<>>}
    ELSE UNION {{<<r>> \o rest : rest \in ClockReads(r, n - 1)} : r \in t..MaxTime}

\* int(x): truncation towards zero.
TruncDiv(a, b) == IF a >= 0 THEN a \div b ELSE -((-a) \div b)

RECURSIVE SumConfidence(_)
SumConfidence(evs) ==
    IF evs = <<>> THEN 0 ELSE Head(evs).confidence + SumConfidence(Tail(evs))

\* sum(b.confidence for b in blinks_in_interval) / len(blinks_in_interval)
AvgConfidence(evs) == SumConfidence(evs) \div Len(evs)

\* _aggregate_blink_data: the buckets in the order a dict keeps them, that of
\* the first event of each; a bucket is <<interval_start, events>>.
RECURSIVE aggregate_from(_, _)
aggregate_from(evs, acc) ==
    IF evs = <<>> THEN acc
    ELSE LET event == Head(evs)
             interval_start == TruncDiv(event.timestamp, 60) * 60
             at == {k \in 1..Len(acc) : acc[k][1] = interval_start}
         IN  IF at = {}
             THEN aggregate_from(Tail(evs), Append(acc, <<interval_start, <<event>>>>))
             ELSE LET k == CHOOSE j \in at : TRUE IN
                  aggregate_from(Tail(evs),
                      [acc EXCEPT ![k] = <<interval_start, Append(acc[k][2], event)>>])

\* _aggregate_blink_data with every event put in the bucket of the first.
aggregate_blink_data_one_bucket(blink_events) ==
    IF blink_events = <<>> THEN <<>>
    ELSE <<<<TruncDiv(Head(blink_events).timestamp, 60) * 60, blink_events>>>>

aggregate_blink_data(blink_events) == aggregate_from(blink_events, <<>>)

\* _calculate_eye_strain_score
calculate_eye_strain_score(blinks_in_interval) ==
    LET blink_count == Len(blinks_in_interval)
        avg_confidence == AvgConfidence(blinks_in_interval)
        base_strain == IF blink_count < 10 THEN (ONE * 8) \div 10
                       ELSE IF blink_count < 15 THEN (ONE * 6) \div 10
                       ELSE IF blink_count <= 20 THEN (ONE * 2) \div 10
                       ELSE (ONE * 4) \div 10
        confidence_factor == ONE - avg_confidence
    IN  Min(ONE, base_strain + (confidence_factor * 2) \div 10)

\* The BlinkDataRecord store_blink_data builds for one bucket.
BlinkRecord(session_id, bucket, created_at) ==
    [session_id |-> session_id,
     timestamp |-> bucket[1],
     blink_count |-> Len(bucket[2]),
     confidence_score |-> AvgConfidence(bucket[2]),
     eye_strain_score |-> calculate_eye_strain_score(bucket[2]),
     interval_seconds |-> 60,
     synced |-> FALSE,
     sync_attempts |-> 0,
     created_at |-> created_at]

\* INSERT OR REPLACE INTO a table whose primary key is id.
InsertOrReplace(table, id, row) ==
    [i \in DOMAIN table \cup {id} |-> IF i = id THEN row ELSE table[i]]

\* The loop of store_blink_data over the buckets: reads[k] is the clock
\* reading of iteration k, from which bucket k takes its id (_generate_id)
\* and its created_at.
RECURSIVE store_buckets(_, _, _, _, _)
store_buckets(table, session_id, buckets, reads, k) ==
    IF k > Len(buckets) THEN table
    ELSE store_buckets(
             InsertOrReplace(table, reads[k],
                             BlinkRecord(session_id, buckets[k], reads[k])),
             session_id, buckets, reads, k + 1)

store_blink_data(session_id, blink_events) ==
    /\ op' = [name |-> "store_blink_data", session_id |-> session_id,
              arg |-> blink_events]
    /\ IF blink_events = <<>>
       THEN UNCHANGED <<local_blink_data, now>>
       ELSE LET aggregated_data == aggregate_blink_data(blink_events) IN
            \E reads \in ClockReads(now, Len(aggregated_data)) :
                /\ local_blink_data' =
                       store_buckets(local_blink_data, session_id,
                                     aggregated_data, reads, 1)
                /\ now' = reads[Len(reads)]
    /\ UNCHANGED <<local_sessions, encryption_key, db_lock, db_calls, blinkVars,
                   syncVars, engineVars, apiVars>>

\* UPDATE table SET synced = TRUE WHERE id IN record_ids
set_synced(table, record_ids) ==
    [i \in DOMAIN table |->
        IF i \in record_ids THEN [table[i] EXCEPT !.synced = TRUE] ELSE table[i]]

\* mark_as_synced(record_ids, record_type): the table is local_blink_data
\* for 'blink' and local_sessions for any other record_type.
mark_as_synced(record_ids, record_type) ==
    /\ record_ids # {}
    /\ IF record_type = "blink"
       THEN /\ local_blink_data' = set_synced(local_blink_data, record_ids)
            /\ UNCHANGED local_sessions
       ELSE /\ local_sessions' = set_synced(local_sessions, record_ids)
            /\ UNCHANGED local_blink_data
    /\ op' = [name |-> "mark_as_synced", session_id |-> None, arg |-> <<>>]
    /\ UNCHANGED <<now, encryption_key, db_lock, db_calls,
                   blinkVars, syncVars, engineVars, apiVars>>

\* The device ids and the total_blinks values the callers of the model pass.
DeviceIds == {"device-A"}
TotalArgs == {0, 2}

\* create_session: the id, start_time and created_at come from one clock
\* reading; the plain INSERT raises on an id the table already holds and adds
\* nothing.
create_session(device_id) ==
    /\ \E at \in now..MaxTime :
          LET session_id == at IN
          /\ now' = at
          /\ local_sessions' =
                IF session_id \in DOMAIN local_sessions
                THEN local_sessions
                ELSE InsertOrReplace(local_sessions, session_id,
                        [device_id |-> device_id,
                         start_time |-> at,
                         end_time |-> None,
                         total_blinks |-> 0,
                         synced |-> FALSE,
                         created_at |-> at])
          /\ op' = [name |-> "create_session", session_id |-> session_id,
                    arg |-> <<>>]
    /\ UNCHANGED <<local_blink_data, encryption_key, db_lock, db_calls, blinkVars,
                   syncVars, engineVars, apiVars>>

\* end_session_update with the total_blinks column left out of the UPDATE.
end_session_update_no_total(table, session_id, total_blinks, at) ==
    [i \in DOMAIN table |->
        IF i = session_id THEN [table[i] EXCEPT !.end_time = at] ELSE table[i]]

\* The UPDATE of end_session: the rows with this id get the clock reading
\* and the caller's total_blinks.
end_session_update(table, session_id, total_blinks, at) ==
    [i \in DOMAIN table |->
        IF i = session_id
        THEN [table[i] EXCEPT !.end_time = at, !.total_blinks = total_blinks]
        ELSE table[i]]

end_session(session_id, total_blinks) ==
    /\ \E at \in now..MaxTime :
          /\ now' = at
          /\ local_sessions' =
                end_session_update(local_sessions, session_id, total_blinks, at)
    /\ op' = [name |-> "end_session", session_id |-> session_id,
              arg |-> <<total_blinks>>]
    /\ UNCHANGED <<local_blink_data, encryption_key, db_lock, db_calls, blinkVars,
                   syncVars, engineVars, apiVars>>

\* The clock of the model in the unit of days_to_keep: the readings of a run
\* are a day apart, so that a row can be older than the cutoff.
SECONDS_PER_DAY == 24 * 3600
TICK_SECONDS == SECONDS_PER_DAY

\* The days_to_keep values the callers of the model pass.
DaysToKeep == {-1, 0, 1}

\* The WHERE clause of the DELETEs of cleanup_old_data with synced left out.
cleanup_where_any(row, cutoff_time) ==
    row.created_at * TICK_SECONDS < cutoff_time

\* The WHERE clause of the DELETEs of cleanup_old_data.
cleanup_where(row, cutoff_time) ==
    row.synced = TRUE /\ row.created_at * TICK_SECONDS < cutoff_time

\* DELETE FROM table WHERE synced = TRUE AND created_at < cutoff_time
cleanup_delete(table, cutoff_time) ==
    [i \in {j \in DOMAIN table : ~cleanup_where(table[j], cutoff_time)} |-> table[i]]

\* cleanup_old_data: the cutoff is taken from one clock reading, both tables
\* lose their old synced rows, and the two row counts are returned.
cleanup_old_data(days_to_keep) ==
    /\ \E at \in now..MaxTime :
          LET cutoff_time == at * TICK_SECONDS - (days_to_keep * 24 * 3600)
              blinks == cleanup_delete(local_blink_data, cutoff_time)
              sessions == cleanup_delete(local_sessions, cutoff_time)
          IN  /\ now' = at
              /\ local_blink_data' = blinks
              /\ local_sessions' = sessions
              /\ op' = [name |-> "cleanup_old_data", session_id |-> None,
                        arg |-> <<days_to_keep, cutoff_time,
                                  Cardinality(DOMAIN local_blink_data)
                                      - Cardinality(DOMAIN blinks),
                                  Cardinality(DOMAIN local_sessions)
                                      - Cardinality(DOMAIN sessions)>>]
    /\ UNCHANGED <<encryption_key, db_lock, db_calls, blinkVars, syncVars,
                   engineVars, apiVars>>

\* initialize_encryption: the key is kept when it could be derived, and the
\* call answers False and keeps nothing when deriving it raised.
initialize_encryption(raises) ==
    /\ encryption_key' = IF raises THEN encryption_key ELSE "key"
    /\ op' = [name |-> "initialize_encryption", session_id |-> None,
              arg |-> <<~raises>>]
    /\ UNCHANGED <<now, local_blink_data, local_sessions, db_lock, db_calls,
                   blinkVars, syncVars, engineVars, apiVars>>

(***************************************************************************)
(* The database connections and db_lock                                    *)
(*                                                                         *)
(* In the actions above a database operation is one step. Here it is the   *)
(* steps of a thread that takes the lock, connects and closes, so that     *)
(* two operations can be seen to overlap; the rows are left out.           *)
(***************************************************************************)

\* The threads that use the database: the main thread and the sync threads.
MainThread == 0
DbThreads == {MainThread} \cup Tids

\* The methods of DataManager the threads of the model call: each opens its
\* connection inside `with self.db_lock`.
DataManagerMethods ==
    {"create_session", "end_session", "store_blink_data", "mark_as_synced",
     "cleanup_old_data"}

\* The methods of SyncManager that open a connection of their own.
SyncManagerMethods ==
    {"_get_sync_queue_items", "_mark_sync_item_completed",
     "_increment_retry_count"}

NoCall == [method |-> "none", pc |-> "idle"]

\* `with self.db_lock:` of a DataManager method: the thread waits until the
\* lock is free and takes it.
DataManagerAcquire(thread, method) ==
    /\ db_calls[thread] = NoCall
    /\ db_lock = None
    /\ db_lock' = thread
    /\ db_calls' = [db_calls EXCEPT ![thread] = [method |-> method, pc |-> "locked"]]
    /\ UNCHANGED <<local_blink_data, local_sessions, op, encryption_key, now,
                   blinkVars, syncVars, engineVars, apiVars>>

\* conn = sqlite3.connect(self.db_path) inside the with block.
DataManagerConnect(thread) ==
    /\ db_calls[thread].pc = "locked"
    /\ db_calls' = [db_calls EXCEPT ![thread].pc = "connected"]
    /\ UNCHANGED <<local_blink_data, local_sessions, op, encryption_key, db_lock,
                   now, blinkVars, syncVars, engineVars, apiVars>>

\* conn.close() and the end of the with block, which releases the lock.
DataManagerRelease(thread) ==
    /\ db_calls[thread].pc = "connected"
    /\ db_calls[thread].method \in DataManagerMethods
    /\ db_lock = thread
    /\ db_lock' = None
    /\ db_calls' = [db_calls EXCEPT ![thread] = NoCall]
    /\ UNCHANGED <<local_blink_data, local_sessions, op, encryption_key, now,
                   blinkVars, syncVars, engineVars, apiVars>>

\* `with sqlite3.connect(self.data_manager.db_path) as conn:` of a
\* SyncManager method: the connection is opened without taking db_lock.
SyncManagerConnect(thread, method) ==
    /\ db_calls[thread] = NoCall
    /\ db_calls' = [db_calls EXCEPT ![thread] = [method |-> method, pc |-> "connected"]]
    /\ UNCHANGED <<local_blink_data, local_sessions, op, encryption_key, db_lock,
                   now, blinkVars, syncVars, engineVars, apiVars>>

\* The SyncManager method is done with its connection.
SyncManagerDone(thread) ==
    /\ db_calls[thread].pc = "connected"
    /\ db_calls[thread].method \in SyncManagerMethods
    /\ db_calls' = [db_calls EXCEPT ![thread] = NoCall]
    /\ UNCHANGED <<local_blink_data, local_sessions, op, encryption_key, db_lock,
                   now, blinkVars, syncVars, engineVars, apiVars>>

StoreInit ==
    /\ local_blink_data = <<>>
    /\ local_sessions = <<>>
    /\ op = NoOp
    /\ encryption_key = "None"
    /\ db_lock = None
    /\ db_calls = [thread \in DbThreads |-> NoCall]

SyncIdle ==
    /\ is_online = FALSE
    /\ sync_in_progress = FALSE
    /\ sync_queue = <<>>
    /\ threads = <<>>
    /\ passes_left = 0

(***************************************************************************)
(* EyeTrackingEngine: lifecycle, capture worker and processing worker      *)
(***************************************************************************)

\* maxsize of self.frame_queue.
FRAME_QUEUE_MAXSIZE == 10

\* Frames the camera delivers in one run of the model of the frame queue,
\* and in one run of the model of the engine's lifecycle.
MaxCaptured == 12
MaxEngineFrames == 4
\* Frames the camera delivers in one run of the model of the restarts, and
\* in one run of the model of an engine started twice.
MaxRestartFrames == 2
MaxStartTwiceFrames == 5

\* The frames the processing worker meets in the model: one face with the
\* eyes closed, one face with the eyes open.
WorkerFrames == {<<20>>, <<30>>}

\* The frames of a user who keeps the eyes open: no usable face, or one face
\* with the eyes open.
AwakeFrames == {<<>>, <<30>>}

NoThread == [pc |-> "none", frame_count |-> 0, frame |-> 0]

\* Whether a worker thread has been started and has not ended.
is_alive(thread) == thread.pc \notin {"none", "done", "crashed", "raised"}

\* Queue.put(item, block=False) without its bound.
put_nowait_unbounded(q, item) == Append(q, item)

\* Queue.put(item, block=False) on a queue of maxsize FRAME_QUEUE_MAXSIZE
\* inside `try ... except queue.Full: pass`: a full queue is left as it is.
put_nowait(q, item) ==
    IF Len(q) < FRAME_QUEUE_MAXSIZE THEN Append(q, item) ELSE q

\* The thread that runs on as the old worker when start_tracking replaces
\* thread: thread itself when it is alive, else the old worker there was.
orphan(thread, old_thread) == IF is_alive(thread) THEN thread ELSE old_thread

\* The model follows two generations of workers: a worker is replaced while
\* it is alive only when no older worker of its kind is alive.
CanOrphan ==
    /\ is_alive(capture_thread) => ~is_alive(old_capture_thread)
    /\ is_alive(process_thread) => ~is_alive(old_process_thread)

\* The workers of the earlier starts have ended: the case of a caller that
\* starts the engine only after its workers are gone.
WorkersEnded == ~is_alive(capture_thread) /\ ~is_alive(process_thread)

\* start_tracking with self.is_running = True moved before the check of
\* camera.isOpened().
start_tracking_sets_running(opened) ==
    /\ main_thread.pc = "idle"
    /\ opened => CanOrphan
    /\ is_running' = TRUE
    /\ IF opened
       THEN /\ camera' = "open"
            /\ is_paused' = FALSE
            /\ old_capture_thread' = orphan(capture_thread, old_capture_thread)
            /\ old_process_thread' = orphan(process_thread, old_process_thread)
            /\ capture_thread' = [NoThread EXCEPT !.pc = "loop"]
            /\ process_thread' = [NoThread EXCEPT !.pc = "loop"]
            /\ main_thread' = [pc |-> "idle", last |-> "start_tracking", ret |-> "True"]
            /\ emitted' = <<>>
       ELSE /\ camera' = "unopened"
            /\ main_thread' = [pc |-> "idle", last |-> "start_tracking", ret |-> "False"]
            /\ UNCHANGED <<is_paused, capture_thread, process_thread, oldVars,
                           emitted>>
    /\ UNCHANGED <<frame_queue, blink_queue, frames_left, now, COUNTER, TOTAL_BLINKS,
                   fed, storeVars, syncVars, apiVars>>

\* start_tracking. opened is what camera.isOpened() answers. It is called
\* by a caller that is not inside stop_tracking, whether or not the engine
\* is running. The new Thread objects replace the ones self.capture_thread
\* and self.process_thread referred to: a replaced thread that is still
\* alive runs on as an old worker.
start_tracking(opened) ==
    /\ main_thread.pc = "idle"
    /\ opened => CanOrphan
    /\ IF opened
       THEN /\ camera' = "open"
            /\ is_running' = TRUE
            /\ is_paused' = FALSE
            /\ old_capture_thread' = orphan(capture_thread, old_capture_thread)
            /\ old_process_thread' = orphan(process_thread, old_process_thread)
            /\ capture_thread' = [NoThread EXCEPT !.pc = "loop"]
            /\ process_thread' = [NoThread EXCEPT !.pc = "loop"]
            /\ main_thread' = [pc |-> "idle", last |-> "start_tracking", ret |-> "True"]
            /\ emitted' = <<>>
       ELSE /\ camera' = "unopened"
            /\ main_thread' = [pc |-> "idle", last |-> "start_tracking", ret |-> "False"]
            /\ UNCHANGED <<is_running, is_paused, capture_thread, process_thread,
                           oldVars, emitted>>
    /\ UNCHANGED <<frame_queue, blink_queue, frames_left, now, COUNTER, TOTAL_BLINKS,
                   fed, storeVars, syncVars, apiVars>>

\* stop_tracking, its first statement: self.is_running = False.
StopTracking ==
    /\ main_thread.pc = "idle"
    /\ is_running' = FALSE
    /\ main_thread' = [main_thread EXCEPT !.pc = "join_capture"]
    /\ UNCHANGED <<is_paused, camera, frame_queue, blink_queue, capture_thread,
                   process_thread, frames_left, now, blinkVars, storeVars, syncVars,
                   apiVars, oldVars>>

\* self.capture_thread.join(timeout=2.0): it returns when the thread has
\* ended, or after the timeout with the thread still alive.
JoinCapture(timed_out) ==
    /\ main_thread.pc = "join_capture"
    /\ timed_out = is_alive(capture_thread)
    /\ main_thread' = [main_thread EXCEPT !.pc = "join_process"]
    /\ UNCHANGED <<is_running, is_paused, camera, frame_queue, blink_queue,
                   capture_thread, process_thread, frames_left, now, blinkVars,
                   storeVars, syncVars, apiVars, oldVars>>

\* self.process_thread.join(timeout=2.0)
JoinProcess(timed_out) ==
    /\ main_thread.pc = "join_process"
    /\ timed_out = is_alive(process_thread)
    /\ main_thread' = [main_thread EXCEPT !.pc = "release"]
    /\ UNCHANGED <<is_running, is_paused, camera, frame_queue, blink_queue,
                   capture_thread, process_thread, frames_left, now, blinkVars,
                   storeVars, syncVars, apiVars, oldVars>>

\* The rest of stop_tracking: the camera is released and forgotten, the two
\* queues are cleared, and stop_tracking returns.
ReleaseAndClear ==
    /\ main_thread.pc = "release"
    /\ camera' = "None"
    /\ frame_queue' = <<>>
    /\ blink_queue' = <<>>
    /\ main_thread' = [pc |-> "idle", last |-> "stop_tracking", ret |-> "None"]
    /\ UNCHANGED <<is_running, is_paused, capture_thread, process_thread,
                   frames_left, now, blinkVars, storeVars, syncVars, apiVars, oldVars>>

pause_tracking ==
    /\ main_thread.pc = "idle"
    /\ is_paused' = TRUE
    /\ UNCHANGED <<is_running, camera, frame_queue, blink_queue, capture_thread,
                   process_thread, main_thread, frames_left, now, blinkVars,
                   storeVars, syncVars, apiVars, oldVars>>

resume_tracking ==
    /\ main_thread.pc = "idle"
    /\ is_paused' = FALSE
    /\ UNCHANGED <<is_running, camera, frame_queue, blink_queue, capture_thread,
                   process_thread, main_thread, frames_left, now, blinkVars,
                   storeVars, syncVars, apiVars, oldVars>>

\* _capture_frames, the head of its loop: `while self.is_running`, and the
\* sleep while paused.
CaptureLoop ==
    /\ capture_thread.pc = "loop"
    /\ capture_thread' =
           [capture_thread EXCEPT
               !.pc = IF ~is_running THEN "done"
                      ELSE IF is_paused THEN "loop" ELSE "read"]
    /\ UNCHANGED <<is_running, is_paused, camera, frame_queue, blink_queue,
                   process_thread, main_thread, frames_left, now, blinkVars,
                   storeVars, syncVars, apiVars, oldVars>>

\* ret, frame = self.camera.read(). With self.camera None the attribute
\* access raises and ends the thread; a camera that is not opened gives no
\* frame; ret False sends the loop back to its head.
CaptureRead(ret) ==
    /\ capture_thread.pc = "read"
    /\ IF camera = "None"
       THEN /\ capture_thread' = [capture_thread EXCEPT !.pc = "crashed"]
            /\ UNCHANGED frames_left
       ELSE IF ret
       THEN /\ camera = "open"
            /\ frames_left > 0
            /\ frames_left' = frames_left - 1
            /\ capture_thread' = [capture_thread EXCEPT
                                     !.pc = "put", !.frame_count = @ + 1]
       ELSE /\ capture_thread' = [capture_thread EXCEPT !.pc = "loop"]
            /\ UNCHANGED frames_left
    /\ UNCHANGED <<is_running, is_paused, camera, frame_queue, blink_queue,
                   process_thread, main_thread, now, blinkVars, storeVars, syncVars,
                   apiVars, oldVars>>

\* The non-blocking put of the captured frame, and the sleep that ends the
\* iteration.
CapturePut ==
    /\ capture_thread.pc = "put"
    /\ frame_queue' = put_nowait(frame_queue, capture_thread.frame_count)
    /\ capture_thread' = [capture_thread EXCEPT !.pc = "loop"]
    /\ UNCHANGED <<is_running, is_paused, camera, blink_queue, process_thread,
                   main_thread, frames_left, now, blinkVars, storeVars, syncVars,
                   apiVars, oldVars>>

\* _process_frames, the head of its loop and the get: the loop ends when
\* is_running is false; an empty queue times the get out and the loop goes
\* round; a frame taken while paused is thrown away.
ProcessGet ==
    /\ process_thread.pc = "loop"
    /\ IF ~is_running
       THEN /\ process_thread' = [process_thread EXCEPT !.pc = "done"]
            /\ UNCHANGED frame_queue
       ELSE IF frame_queue = <<>>
       THEN UNCHANGED <<process_thread, frame_queue>>
       ELSE /\ frame_queue' = Tail(frame_queue)
            /\ process_thread' =
                   IF is_paused THEN process_thread
                   ELSE [process_thread EXCEPT
                            !.pc = "detect", !.frame = Head(frame_queue)]
    /\ UNCHANGED <<is_running, is_paused, camera, blink_queue, capture_thread,
                   main_thread, frames_left, now, blinkVars, storeVars, syncVars,
                   apiVars, oldVars>>

\* The rest of the iteration: _detect_blink on the frame, and the event it
\* returns, if any, is put on the blink queue.
ProcessDetect(faces) ==
    /\ process_thread.pc = "detect"
    /\ LET r == detect_blink(faces, process_thread.frame) IN
       /\ COUNTER' = r.COUNTER
       /\ TOTAL_BLINKS' = r.TOTAL_BLINKS
       /\ blink_queue' = IF r.event = NoEvent THEN blink_queue
                         ELSE Append(blink_queue, r.event)
       /\ emitted' = IF r.event = NoEvent THEN emitted ELSE Append(emitted, r.event)
    /\ process_thread' = [process_thread EXCEPT !.pc = "loop"]
    /\ UNCHANGED <<fed, is_running, is_paused, camera, frame_queue,
                   capture_thread, main_thread, frames_left, now, storeVars,
                   syncVars, apiVars, oldVars>>

\* self.camera.read() raises on the opened camera: _capture_frames has no
\* try around it, so the exception leaves the loop and ends the thread.
CaptureReadRaises ==
    /\ capture_thread.pc = "read"
    /\ camera = "open"
    /\ capture_thread' = [capture_thread EXCEPT !.pc = "raised"]
    /\ UNCHANGED <<is_running, is_paused, camera, frame_queue, blink_queue,
                   process_thread, main_thread, frames_left, now, blinkVars,
                   storeVars, syncVars, apiVars, oldVars>>

\* The extractor raises inside _detect_blink before the counter is touched:
\* the except of _detect_blink returns None, nothing is put on the blink
\* queue, and the loop of _process_frames goes round. (An exception of the
\* blink callback is raised after the put and is caught by the except of
\* _process_frames: what it leaves is what ProcessDetect leaves.)
ProcessDetectRaises ==
    /\ process_thread.pc = "detect"
    /\ process_thread' = [process_thread EXCEPT !.pc = "loop"]
    /\ UNCHANGED <<is_running, is_paused, camera, frame_queue, blink_queue,
                   capture_thread, main_thread, frames_left, now, blinkVars,
                   storeVars, syncVars, apiVars, oldVars>>

\* The steps of an old capture worker: those of CaptureLoop, CaptureRead
\* and CapturePut, made by the thread start_tracking has replaced.
OldCaptureLoop ==
    /\ old_capture_thread.pc = "loop"
    /\ old_capture_thread' =
           [old_capture_thread EXCEPT
               !.pc = IF ~is_running THEN "done"
                      ELSE IF is_paused THEN "loop" ELSE "read"]
    /\ UNCHANGED <<is_running, is_paused, camera, frame_queue, blink_queue,
                   capture_thread, process_thread, main_thread, frames_left,
                   old_process_thread, now, blinkVars, storeVars, syncVars, apiVars>>

OldCaptureRead(ret) ==
    /\ old_capture_thread.pc = "read"
    /\ IF camera = "None"
       THEN /\ old_capture_thread' = [old_capture_thread EXCEPT !.pc = "crashed"]
            /\ UNCHANGED frames_left
       ELSE IF ret
       THEN /\ camera = "open"
            /\ frames_left > 0
            /\ frames_left' = frames_left - 1
            /\ old_capture_thread' = [old_capture_thread EXCEPT
                                         !.pc = "put", !.frame_count = @ + 1]
       ELSE /\ old_capture_thread' = [old_capture_thread EXCEPT !.pc = "loop"]
            /\ UNCHANGED frames_left
    /\ UNCHANGED <<is_running, is_paused, camera, frame_queue, blink_queue,
                   capture_thread, process_thread, main_thread,
                   old_process_thread, now, blinkVars, storeVars, syncVars, apiVars>>

OldCapturePut ==
    /\ old_capture_thread.pc = "put"
    /\ frame_queue' = put_nowait(frame_queue, old_capture_thread.frame_count)
    /\ old_capture_thread' = [old_capture_thread EXCEPT !.pc = "loop"]
    /\ UNCHANGED <<is_running, is_paused, camera, blink_queue, capture_thread,
                   process_thread, main_thread, frames_left, old_process_thread,
                   now, blinkVars, storeVars, syncVars, apiVars>>

\* The steps of an old processing worker: those of ProcessGet and
\* ProcessDetect, made by the thread start_tracking has replaced.
OldProcessGet ==
    /\ old_process_thread.pc = "loop"
    /\ IF ~is_running
       THEN /\ old_process_thread' = [old_process_thread EXCEPT !.pc = "done"]
            /\ UNCHANGED frame_queue
       ELSE IF frame_queue = <<>>
       THEN UNCHANGED <<old_process_thread, frame_queue>>
       ELSE /\ frame_queue' = Tail(frame_queue)
            /\ old_process_thread' =
                   IF is_paused THEN old_process_thread
                   ELSE [old_process_thread EXCEPT
                            !.pc = "detect", !.frame = Head(frame_queue)]
    /\ UNCHANGED <<is_running, is_paused, camera, blink_queue, capture_thread,
                   process_thread, main_thread, frames_left, old_capture_thread,
                   now, blinkVars, storeVars, syncVars, apiVars>>

OldProcessDetect(faces) ==
    /\ old_process_thread.pc = "detect"
    /\ LET r == detect_blink(faces, old_process_thread.frame) IN
       /\ COUNTER' = r.COUNTER
       /\ TOTAL_BLINKS' = r.TOTAL_BLINKS
       /\ blink_queue' = IF r.event = NoEvent THEN blink_queue
                         ELSE Append(blink_queue, r.event)
       /\ emitted' = IF r.event = NoEvent THEN emitted ELSE Append(emitted, r.event)
    /\ old_process_thread' = [old_process_thread EXCEPT !.pc = "loop"]
    /\ UNCHANGED <<fed, is_running, is_paused, camera, frame_queue,
                   capture_thread, process_thread, main_thread, frames_left,
                   old_capture_thread, now, storeVars, syncVars, apiVars>>

\* get_latest_blinks: the consumer empties the blink queue.
get_latest_blinks ==
    /\ blink_queue # <<>>
    /\ blink_queue' = <<>>
    /\ UNCHANGED <<is_running, is_paused, camera, frame_queue, capture_thread,
                   process_thread, main_thread, frames_left, now, blinkVars,
                   storeVars, syncVars, apiVars, oldVars>>

EngineIdle ==
    /\ is_running = FALSE
    /\ is_paused = FALSE
    /\ camera = "None"
    /\ frame_queue = <<>>
    /\ blink_queue = <<>>
    /\ capture_thread = NoThread
    /\ process_thread = NoThread
    /\ main_thread = [pc |-> "idle", last |-> "none", ret |-> "None"]
    /\ old_capture_thread = NoThread
    /\ old_process_thread = NoThread
    /\ frames_left = MaxEngineFrames

(***************************************************************************)
(* APIClient.request and the token refresh of AuthManager                  *)
(***************************************************************************)

\* self.max_retries of APIClient: request makes up to max_retries + 1
\* attempts.
max_retries == 3

\* The status codes the remote answers with in the model: a success, the
\* auth failure, another client error and a server error.
StatusCodes == {200, 401, 404, 500}

\* What one HTTP call of request meets: an answer with a status code, or one
\* of the exceptions of the requests library.
Answers ==
    {[raises |-> "none", status_code |-> c] : c \in StatusCodes}
        \cup {[raises |-> "Timeout", status_code |-> 0],
              [raises |-> "ConnectionError", status_code |-> 0]}

\* What one attempt of request meets: the answer to its HTTP call and what
\* refresh_access_token returns if the attempt calls it (it is only called
\* on a 401).
Attempts ==
    {[answer |-> a, refresh |-> r] :
        a \in Answers,
        r \in BOOLEAN} \ {x \in [answer : Answers, refresh : BOOLEAN] :
                             x.answer.status_code # 401 /\ x.refresh}

\* The remote's behaviour over the attempts of one request call.
Scripts ==
    {<<a, b, c, d>> : a \in Attempts, b \in Attempts, c \in Attempts, d \in Attempts}

APIResponse(success, status_code, error, calls, refreshes) ==
    [success |-> success, status_code |-> status_code, error |-> error,
     calls |-> calls, refreshes |-> refreshes]

\* The loop `for attempt in range(retries + 1)` of request from attempt on,
\* with retries = max_retries. calls and refreshes count the HTTP calls and
\* the calls of refresh_access_token made so far; they are returned with the
\* APIResponse.
RECURSIVE request_from(_, _, _, _, _)
request_from(script, authenticated, attempt, calls, refreshes) ==
    IF attempt > max_retries
    THEN APIResponse(FALSE, 0, "Max retries exceeded", calls, refreshes)
    ELSE LET a == script[attempt + 1].answer
             code == a.status_code
         IN
         IF a.raises = "Timeout"
         THEN IF attempt < max_retries
              THEN request_from(script, authenticated, attempt + 1, calls + 1, refreshes)
              ELSE APIResponse(FALSE, 408, "Request timeout", calls + 1, refreshes)
         ELSE IF a.raises = "ConnectionError"
         THEN IF attempt < max_retries
              THEN request_from(script, authenticated, attempt + 1, calls + 1, refreshes)
              ELSE APIResponse(FALSE, 0, "Connection error", calls + 1, refreshes)
         ELSE IF code = 401 /\ authenticated
         THEN IF script[attempt + 1].refresh
              THEN request_from(script, authenticated, attempt + 1, calls + 1,
                                refreshes + 1)
              ELSE APIResponse(FALSE, 401, "Authentication failed", calls + 1,
                               refreshes + 1)
         ELSE IF 200 <= code /\ code < 300
         THEN APIResponse(TRUE, code, "", calls + 1, refreshes)
         ELSE IF 400 <= code /\ code < 500
         THEN APIResponse(FALSE, code, "HTTP", calls + 1, refreshes)
         ELSE IF code >= 500 /\ attempt < max_retries
         THEN request_from(script, authenticated, attempt + 1, calls + 1, refreshes)
         ELSE APIResponse(FALSE, code, "HTTP", calls + 1, refreshes)

\* APIClient.request against a remote that behaves as script says.
request(script, authenticated) == request_from(script, authenticated, 0, 0, 0)

NoRequest == [script |-> <<>>, authenticated |-> FALSE,
              response |-> APIResponse(FALSE, 0, "", 0, 0)]

\* One call of request, the one call of a run of the model. A refresh that
\* fails may have logged the user out (refresh_access_token calls logout
\* when the refresh is rejected).
Request(script, authenticated) ==
    /\ req = NoRequest
    /\ LET r == request(script, authenticated) IN
       /\ req' = [script |-> script, authenticated |-> authenticated, response |-> r]
       /\ is_authenticated' \in
              {is_authenticated} \cup
                  (IF r.status_code = 401 /\ r.refreshes > 0 THEN {FALSE} ELSE {})
    /\ UNCHANGED <<now, blinkVars, storeVars, syncVars, engineVars>>

\* The user logs in or out, or the access token expires and cannot be
\* refreshed: what is_authenticated() answers changes.
AuthChange ==
    /\ is_authenticated' = ~is_authenticated
    /\ UNCHANGED <<req, now, blinkVars, storeVars, syncVars, engineVars>>

ApiIdle ==
    /\ req = NoRequest
    /\ is_authenticated = FALSE

\* What _process_sync_item can get back from request for a queue item, as
\* far as the coordinator looks at it.
Responses ==
    {[success |-> request(s, TRUE).success,
      status_code |-> request(s, TRUE).status_code] : s \in Scripts}

\* The responses the queue items of the model meet: a success, a client
\* error that is not an auth failure, and a connection error.
SyncResponses == {r \in Responses : r.status_code \in {200, 404, 0}}

\* The responses the items of the three-item queue meet: a success and a
\* connection error.
OrderResponses == {r \in Responses : r.status_code \in {200, 0}}

(***************************************************************************)
(* SyncManager: the sync coordinator                                       *)
(***************************************************************************)

\* The retry_count from which the SELECT of _get_sync_queue_items leaves a
\* row out, and its LIMIT.
RETRY_LIMIT == 5
SYNC_LIMIT == 50
\* max_retries of the schema of sync_queue: the retry ceiling.
MAX_RETRIES == 5

\* Sync passes started in one run of the model.
MaxPasses == 3
\* Sync passes started in one run of the model on the three-item queue.
MaxOrderPasses == 1
\* Sync passes started in one run of the model with connectivity and
\* authentication changing.
MaxConnectPasses == 2

\* The delay the backoff policy of the design asks for after a failure that
\* found retry_count at k: BaseDelay * 2^k, at most MaxDelay.
BaseDelay == 1
MaxDelay == 3600
RetryDelay(k) == Min(BaseDelay * 2^k, MaxDelay)

\* A row of sync_queue as it is enqueued: retry_count and status take the
\* defaults of the schema, next_retry the time of the enqueue.
QueueRow(created_at) ==
    [created_at |-> created_at,
     retry_count |-> 0,
     last_attempt |-> None,
     next_retry |-> created_at,
     status |-> "pending"]

\* The time the coordinator of the model starts at: late enough for an item
\* enqueued at time 0 to have failed RETRY_LIMIT - 1 times at time 0 and be
\* due again under the backoff policy.
SyncStart == RetryDelay(RETRY_LIMIT - 2)

\* The row after retry_count failed attempts of an earlier run of the
\* coordinator, the last of them a full backoff delay before SyncStart.
RetriedRow(created_at, retry_count) ==
    [QueueRow(created_at) EXCEPT
        !.retry_count = retry_count,
        !.last_attempt = IF retry_count = 0 THEN None
                         ELSE SyncStart - RetryDelay(retry_count - 1)]

RECURSIVE Perms(_)
Perms(S) ==
    IF S = {} THEN {<<>>}
    ELSE UNION {{<<x>> \o p : p \in Perms(S \ {x})} : x \in S}

\* The SELECT without its WHERE clause.
Selectable_any(row) == TRUE

\* WHERE retry_count < 5
Selectable(row) == row.retry_count < RETRY_LIMIT

\* The SELECT without its ORDER BY clause: the rows come in any order.
InOrder_any(a, b) == TRUE

\* ORDER BY created_at ASC: whether row a may come before row b.
InOrder(a, b) == a.created_at <= b.created_at

\* The lists _get_sync_queue_items can return from the table: the selectable
\* rows in order (rows of equal created_at in either order), cut at the
\* LIMIT. An item carries the id and retry_count the SELECT read; created_at
\* is kept with it only to state properties of the order.
get_sync_queue_items ==
    LET ids == {i \in DOMAIN sync_queue : Selectable(sync_queue[i])}
        orders == {p \in Perms(ids) :
                      \A a, b \in 1..Len(p) :
                          a < b => InOrder(sync_queue[p[a]], sync_queue[p[b]])}
    IN  {[k \in 1..Min(Len(p), SYNC_LIMIT) |->
             [id |-> p[k],
              retry_count |-> sync_queue[p[k]].retry_count,
              created_at |-> sync_queue[p[k]].created_at]] : p \in orders}

\* The thread start of sync_pending_data: a new thread at the top of
\* _perform_sync, which has not yet set sync_in_progress. over is history:
\* the items whose retry_count was above the ceiling when the pass started.
StartThread ==
    /\ passes_left > 0
    /\ \E t \in Tids \ DOMAIN threads :
          threads' = [u \in DOMAIN threads \cup {t} |->
                         IF u = t
                         THEN [pc |-> "start", items |-> <<>>, idx |-> 0,
                               success |-> FALSE, status_code |-> 0,
                               over |-> {i \in DOMAIN sync_queue :
                                    sync_queue[i].retry_count > MAX_RETRIES}]
                         ELSE threads[u]]
    /\ passes_left' = passes_left - 1

\* sync_pending_data, called with is_online as the caller left it.
sync_pending_data(online, authenticated) ==
    IF ~online \/ sync_in_progress \/ ~authenticated
    THEN UNCHANGED <<threads, passes_left>>
    ELSE StartThread

\* The sync timer fires.
SyncTimer(authenticated) ==
    /\ sync_pending_data(is_online, authenticated)
    /\ UNCHANGED <<is_online, sync_in_progress, sync_queue, now, blinkVars, storeVars, engineVars, apiVars>>

\* check_connection without the call of sync_pending_data that follows a
\* change to online.
check_connection_no_trigger(probe, authenticated) ==
    /\ is_online' = (probe = "up")
    /\ UNCHANGED <<threads, passes_left>>
    /\ UNCHANGED <<sync_in_progress, sync_queue, now, blinkVars, storeVars,
                   engineVars, apiVars>>

\* The health check timer fires: check_connection. The probe answers
\* "up" or "down", or health_check raises.
check_connection(probe, authenticated) ==
    /\ IF probe = "raises"
       THEN /\ is_online' = FALSE
            /\ UNCHANGED <<threads, passes_left>>
       ELSE LET new_status == (probe = "up") IN
            IF new_status # is_online
            THEN /\ is_online' = new_status
                 /\ IF new_status
                    THEN sync_pending_data(new_status, authenticated)
                    ELSE UNCHANGED <<threads, passes_left>>
            ELSE UNCHANGED <<is_online, threads, passes_left>>
    /\ UNCHANGED <<sync_in_progress, sync_queue, now, blinkVars, storeVars, engineVars, apiVars>>

force_sync(authenticated) ==
    /\ IF ~sync_in_progress
       THEN sync_pending_data(is_online, authenticated)
       ELSE UNCHANGED <<threads, passes_left>>
    /\ UNCHANGED <<is_online, sync_in_progress, sync_queue, now, blinkVars, storeVars, engineVars, apiVars>>

SetThread(t, frame) == [threads EXCEPT ![t] = frame]

\* _perform_sync, its first statement: sync_in_progress = True.
SetInProgress(t) ==
    /\ t \in DOMAIN threads
    /\ threads[t].pc = "start"
    /\ sync_in_progress' = TRUE
    /\ threads' = SetThread(t, [threads[t] EXCEPT !.pc = "fetch"])
    /\ UNCHANGED <<is_online, sync_queue, passes_left, now, blinkVars, storeVars, engineVars, apiVars>>

\* Where the loop of _perform_sync stands after idx items.
LoopPc(items, idx) == IF idx > Len(items) THEN "flush" ELSE "item"

\* sync_items = self._get_sync_queue_items(); a database error is caught
\* there and gives the empty list.
GetSyncQueueItems(t, db_error) ==
    /\ t \in DOMAIN threads
    /\ threads[t].pc = "fetch"
    /\ \E items \in (IF db_error THEN {<<>>} ELSE get_sync_queue_items) :
          threads' = SetThread(t, [threads[t] EXCEPT
                                      !.items = items, !.idx = 1,
                                      !.pc = LoopPc(items, 1)])
    /\ UNCHANGED <<is_online, sync_in_progress, sync_queue, passes_left, now,
                   blinkVars, storeVars, engineVars, apiVars>>

\* _process_sync_item: the network call for the item the loop stands at.
\* The loop looks at response.success only; status_code is kept with it as
\* history.
ProcessSyncItem(t, response) ==
    /\ t \in DOMAIN threads
    /\ threads[t].pc = "item"
    /\ threads' = SetThread(t, [threads[t] EXCEPT
                                   !.pc = "result",
                                   !.success = response.success,
                                   !.status_code = response.status_code])
    /\ UNCHANGED <<is_online, sync_in_progress, sync_queue, passes_left, now,
                   blinkVars, storeVars, engineVars, apiVars>>

\* DELETE FROM sync_queue WHERE id = ?
mark_sync_item_completed(table, item_id) ==
    [i \in DOMAIN table \ {item_id} |-> table[i]]

\* UPDATE sync_queue SET retry_count = retry_count + 1,
\*                       last_attempt = CURRENT_TIMESTAMP WHERE id = ?
increment_retry_count(table, item_id, at) ==
    [i \in DOMAIN table |->
        IF i = item_id
        THEN [table[i] EXCEPT !.retry_count = @ + 1, !.last_attempt = at]
        ELSE table[i]]

\* The branch of the loop body that follows the call: the item is deleted on
\* success, its retry_count incremented otherwise. Both helpers catch a
\* database error and leave the table as it was.
RecordResult(t, db_error) ==
    /\ t \in DOMAIN threads
    /\ threads[t].pc = "result"
    /\ LET item == threads[t].items[threads[t].idx] IN
       sync_queue' =
           IF db_error THEN sync_queue
           ELSE IF threads[t].success
                THEN mark_sync_item_completed(sync_queue, item.id)
                ELSE increment_retry_count(sync_queue, item.id, now)
    /\ threads' = SetThread(t, [threads[t] EXCEPT
                                   !.idx = @ + 1,
                                   !.pc = LoopPc(threads[t].items, threads[t].idx + 1)])
    /\ UNCHANGED <<is_online, sync_in_progress, passes_left, now, blinkVars, storeVars, engineVars, apiVars>>

\* The pending blink records after the loop: the flush succeeds, raises
\* inside its own try, or the access to pending_records raises into the
\* outer except. Every way leads to the finally clause.
SyncPendingRecords(t, outcome) ==
    /\ t \in DOMAIN threads
    /\ threads[t].pc = "flush"
    /\ outcome \in {"ok", "flush_raises", "raises"}
    /\ threads' = SetThread(t, [threads[t] EXCEPT !.pc = "finally"])
    /\ UNCHANGED <<is_online, sync_in_progress, sync_queue, passes_left, now,
                   blinkVars, storeVars, engineVars, apiVars>>

\* The finally clause without its assignment: the thread ends and leaves
\* sync_in_progress as it is.
Finally_keeps_flag(t) ==
    /\ t \in DOMAIN threads
    /\ threads[t].pc = "finally"
    /\ threads' = [u \in DOMAIN threads \ {t} |-> threads[u]]
    /\ UNCHANGED <<is_online, sync_in_progress, sync_queue, passes_left, now,
                   blinkVars, storeVars, engineVars, apiVars>>

\* finally: sync_in_progress = False, and the thread ends.
Finally(t) ==
    /\ t \in DOMAIN threads
    /\ threads[t].pc = "finally"
    /\ sync_in_progress' = FALSE
    /\ threads' = [u \in DOMAIN threads \ {t} |-> threads[u]]
    /\ UNCHANGED <<is_online, sync_queue, passes_left, now, blinkVars, storeVars, engineVars, apiVars>>

\* The clock advances.
Tick ==
    /\ now < SyncStart + MaxTime
    /\ now' = now + 1
    /\ UNCHANGED <<blinkVars, storeVars, syncVars, engineVars, apiVars>>

\* ---- the blink state machine alone ----
InitBlink == BlinkInit /\ now = 0 /\ StoreInit /\ SyncIdle /\ EngineIdle /\ ApiIdle
NextBlink == \E faces \in Frames : DetectBlink(faces)
SpecBlink == InitBlink /\ [][NextBlink]_vars

\* ---- the blink table of the local store ----
InitStore == BlinkInit /\ now = 0 /\ StoreInit /\ SyncIdle /\ EngineIdle /\ ApiIdle
NextStore ==
    \/ \E s \in SessionArgs, evs \in EventLists : store_blink_data(s, evs)
    \/ \E ids \in SUBSET Ids : mark_as_synced(ids, "blink")
SpecStore == InitStore /\ [][NextStore]_vars

\* ---- the sessions of the local store ----
InitSession == BlinkInit /\ now = 0 /\ StoreInit /\ SyncIdle /\ EngineIdle /\ ApiIdle
NextSession ==
    \/ \E d \in DeviceIds : create_session(d)
    \/ \E s \in SessionArgs, tb \in TotalArgs : end_session(s, tb)
    \/ \E s \in SessionArgs, evs \in {<<EventA>>, <<EventA, EventA>>} :
          store_blink_data(s, evs)
SpecSession == InitSession /\ [][NextSession]_vars

\* ---- the retention policy of the local store ----
InitCleanup == BlinkInit /\ now = 0 /\ StoreInit /\ SyncIdle /\ EngineIdle /\ ApiIdle
NextCleanup ==
    \/ store_blink_data(0, <<EventA>>)
    \/ \E d \in DeviceIds : create_session(d)
    \/ \E id \in Ids, record_type \in {"blink", "session"} :
          mark_as_synced({id}, record_type)
    \/ \E days_to_keep \in DaysToKeep : cleanup_old_data(days_to_keep)
SpecCleanup == InitCleanup /\ [][NextCleanup]_vars

\* ---- the sessions of the local store, with encryption ----
InitEncryption == BlinkInit /\ now = 0 /\ StoreInit /\ SyncIdle /\ EngineIdle /\ ApiIdle
NextEncryption ==
    \/ \E raises \in BOOLEAN : initialize_encryption(raises)
    \/ \E d \in DeviceIds : create_session(d)
    \/ \E s \in SessionArgs, tb \in TotalArgs : end_session(s, tb)
SpecEncryption == InitEncryption /\ [][NextEncryption]_vars

\* ---- the database connections ----
InitLock == BlinkInit /\ now = 0 /\ StoreInit /\ SyncIdle /\ EngineIdle /\ ApiIdle
NextLock ==
    \/ \E thread \in DbThreads, method \in DataManagerMethods :
          DataManagerAcquire(thread, method)
    \/ \E thread \in DbThreads : DataManagerConnect(thread)
    \/ \E thread \in DbThreads : DataManagerRelease(thread)
    \/ \E thread \in Tids, method \in SyncManagerMethods :
          SyncManagerConnect(thread, method)
    \/ \E thread \in Tids : SyncManagerDone(thread)
SpecLock == InitLock /\ [][NextLock]_vars

\* ---- the sync coordinator ----
Probes == {"up", "down", "raises"}

NextSync ==
    \/ SyncTimer(is_authenticated)
    \/ \E probe \in Probes : check_connection(probe, is_authenticated)
    \/ force_sync(is_authenticated)
    \/ \E t \in Tids : SetInProgress(t)
    \/ \E t \in Tids, db_error \in BOOLEAN : GetSyncQueueItems(t, db_error)
    \/ \E t \in Tids, response \in SyncResponses : ProcessSyncItem(t, response)
    \/ \E t \in Tids, db_error \in BOOLEAN : RecordResult(t, db_error)
    \/ \E t \in Tids, outcome \in {"ok", "flush_raises", "raises"} :
          SyncPendingRecords(t, outcome)
    \/ \E t \in Tids : Finally(t)
    \/ Tick

\* The user is logged in, and stays so in the runs of the model that start
\* from here.
LoggedIn ==
    /\ req = NoRequest
    /\ is_authenticated = TRUE

SyncInit ==
    /\ is_online = FALSE
    /\ sync_in_progress = FALSE
    /\ threads = <<>>

\* The retry_count the item of the queue has when the coordinator starts:
\* fresh, or one failure short of being left out.
InitRetryCounts == {0, RETRY_LIMIT - 1}

\* The coordinator starts on a queue of one item.
InitSync ==
    /\ BlinkInit /\ StoreInit /\ SyncInit /\ EngineIdle /\ LoggedIn
    /\ now = SyncStart
    /\ \E r \in InitRetryCounts :
          sync_queue = [i \in {1} |-> RetriedRow(0, r)]
    /\ passes_left = MaxPasses
SpecSync == InitSync /\ [][NextSync]_vars

\* The times the three items of the ordered queue were enqueued at, by id:
\* every order of three different times, and two items of the same time.
OrderedQueues ==
    {<<0, 1, 2>>, <<0, 2, 1>>, <<1, 0, 2>>, <<1, 2, 0>>, <<2, 0, 1>>,
     <<2, 1, 0>>, <<1, 0, 1>>}

\* The coordinator starts on a queue of three fresh items.
InitSyncOrder ==
    /\ BlinkInit /\ StoreInit /\ SyncInit /\ EngineIdle /\ LoggedIn
    /\ now = SyncStart
    /\ \E created \in OrderedQueues :
          sync_queue = [i \in {1, 2, 3} |-> QueueRow(created[i])]
    /\ passes_left = MaxOrderPasses
NextSyncOrder ==
    \/ SyncTimer(is_authenticated)
    \/ \E probe \in Probes : check_connection(probe, is_authenticated)
    \/ force_sync(is_authenticated)
    \/ \E t \in Tids : SetInProgress(t)
    \/ \E t \in Tids, db_error \in BOOLEAN : GetSyncQueueItems(t, db_error)
    \/ \E t \in Tids, response \in OrderResponses : ProcessSyncItem(t, response)
    \/ \E t \in Tids, db_error \in BOOLEAN : RecordResult(t, db_error)
    \/ \E t \in Tids, outcome \in {"ok", "flush_raises", "raises"} :
          SyncPendingRecords(t, outcome)
    \/ \E t \in Tids : Finally(t)
SpecSyncOrder == InitSyncOrder /\ [][NextSyncOrder]_vars

\* ---- the sync coordinator, connectivity and authentication changing ----
\* The coordinator starts on a queue of one fresh item, the user logged out.
InitConnect ==
    /\ BlinkInit /\ StoreInit /\ SyncInit /\ EngineIdle /\ ApiIdle
    /\ now = SyncStart
    /\ sync_queue = [i \in {1} |-> QueueRow(0)]
    /\ passes_left = MaxConnectPasses
NextConnect ==
    \/ SyncTimer(is_authenticated)
    \/ \E probe \in Probes : check_connection(probe, is_authenticated)
    \/ force_sync(is_authenticated)
    \/ AuthChange
    \/ \E t \in Tids : SetInProgress(t)
    \/ \E t \in Tids, db_error \in BOOLEAN : GetSyncQueueItems(t, db_error)
    \/ \E t \in Tids, response \in SyncResponses : ProcessSyncItem(t, response)
    \/ \E t \in Tids, db_error \in BOOLEAN : RecordResult(t, db_error)
    \/ \E t \in Tids, outcome \in {"ok", "flush_raises", "raises"} :
          SyncPendingRecords(t, outcome)
    \/ \E t \in Tids : Finally(t)
SpecConnect == InitConnect /\ [][NextConnect]_vars

\* A step of the thread t running _perform_sync.
ThreadStep(t) ==
    \/ SetInProgress(t)
    \/ \E db_error \in BOOLEAN : GetSyncQueueItems(t, db_error)
    \/ \E response \in SyncResponses : ProcessSyncItem(t, response)
    \/ \E db_error \in BOOLEAN : RecordResult(t, db_error)
    \/ \E outcome \in {"ok", "flush_raises", "raises"} : SyncPendingRecords(t, outcome)
    \/ Finally(t)

\* The same coordinator with every started thread scheduled until it ends:
\* each statement of _perform_sync returns (the HTTP calls and the database
\* connections have timeouts).
SpecConnectFair ==
    InitConnect /\ [][NextConnect]_vars /\ \A t \in Tids : WF_vars(ThreadStep(t))

\* ---- the engine's lifecycle and its two workers ----
InitEngine == BlinkInit /\ now = 0 /\ StoreInit /\ SyncIdle /\ ApiIdle /\ EngineIdle
NextEngine ==
    \/ \E opened \in BOOLEAN : (opened => WorkersEnded) /\ start_tracking(opened)
    \/ StopTracking
    \/ \E timed_out \in BOOLEAN : JoinCapture(timed_out)
    \/ \E timed_out \in BOOLEAN : JoinProcess(timed_out)
    \/ ReleaseAndClear
    \/ pause_tracking
    \/ resume_tracking
    \/ CaptureLoop
    \/ \E ret \in BOOLEAN : CaptureRead(ret)
    \/ CapturePut
    \/ ProcessGet
    \/ \E faces \in WorkerFrames : ProcessDetect(faces)
    \/ get_latest_blinks
    \/ CaptureReadRaises
    \/ ProcessDetectRaises
SpecEngine == InitEngine /\ [][NextEngine]_vars

\* ---- the engine started again while workers are alive ----
InitRestart ==
    /\ BlinkInit /\ now = 0 /\ StoreInit /\ SyncIdle /\ ApiIdle
    /\ is_running = FALSE
    /\ is_paused = FALSE
    /\ camera = "None"
    /\ frame_queue = <<>>
    /\ blink_queue = <<>>
    /\ capture_thread = NoThread
    /\ process_thread = NoThread
    /\ main_thread = [pc |-> "idle", last |-> "none", ret |-> "None"]
    /\ old_capture_thread = NoThread
    /\ old_process_thread = NoThread
    /\ frames_left = MaxRestartFrames
NextRestart ==
    \/ \E opened \in BOOLEAN : start_tracking(opened)
    \/ StopTracking
    \/ \E timed_out \in BOOLEAN : JoinCapture(timed_out)
    \/ \E timed_out \in BOOLEAN : JoinProcess(timed_out)
    \/ ReleaseAndClear
    \/ pause_tracking
    \/ resume_tracking
    \/ CaptureLoop
    \/ \E ret \in BOOLEAN : CaptureRead(ret)
    \/ CapturePut
    \/ ProcessGet
    \/ \E faces \in WorkerFrames : ProcessDetect(faces)
    \/ OldCaptureLoop
    \/ \E ret \in BOOLEAN : OldCaptureRead(ret)
    \/ OldCapturePut
    \/ OldProcessGet
    \/ \E faces \in WorkerFrames : OldProcessDetect(faces)
SpecRestart == InitRestart /\ [][NextRestart]_vars

\* ---- the engine started a second time while it runs, and never stopped ----
InitStartTwice ==
    /\ BlinkInit /\ now = 0 /\ StoreInit /\ SyncIdle /\ ApiIdle
    /\ is_running = FALSE
    /\ is_paused = FALSE
    /\ camera = "None"
    /\ frame_queue = <<>>
    /\ blink_queue = <<>>
    /\ capture_thread = NoThread
    /\ process_thread = NoThread
    /\ main_thread = [pc |-> "idle", last |-> "none", ret |-> "None"]
    /\ old_capture_thread = NoThread
    /\ old_process_thread = NoThread
    /\ frames_left = MaxStartTwiceFrames
NextStartTwice ==
    \/ \E opened \in BOOLEAN : start_tracking(opened)
    \/ CaptureLoop
    \/ \E ret \in BOOLEAN : CaptureRead(ret)
    \/ CapturePut
    \/ ProcessGet
    \/ \E faces \in WorkerFrames : ProcessDetect(faces)
    \/ OldCaptureLoop
    \/ \E ret \in BOOLEAN : OldCaptureRead(ret)
    \/ OldCapturePut
    \/ OldProcessGet
    \/ \E faces \in WorkerFrames : OldProcessDetect(faces)
SpecStartTwice == InitStartTwice /\ [][NextStartTwice]_vars

\* ---- the frame queue between the two workers ----
InitFrameQueue ==
    /\ BlinkInit /\ now = 0 /\ StoreInit /\ SyncIdle /\ ApiIdle
    /\ is_running = FALSE
    /\ is_paused = FALSE
    /\ camera = "None"
    /\ frame_queue = <<>>
    /\ blink_queue = <<>>
    /\ capture_thread = NoThread
    /\ process_thread = NoThread
    /\ main_thread = [pc |-> "idle", last |-> "none", ret |-> "None"]
    /\ old_capture_thread = NoThread
    /\ old_process_thread = NoThread
    /\ frames_left = MaxCaptured
NextFrameQueue ==
    \/ \E opened \in BOOLEAN : (opened => WorkersEnded) /\ start_tracking(opened)
    \/ StopTracking
    \/ \E timed_out \in BOOLEAN : JoinCapture(timed_out)
    \/ \E timed_out \in BOOLEAN : JoinProcess(timed_out)
    \/ ReleaseAndClear
    \/ pause_tracking
    \/ resume_tracking
    \/ CaptureLoop
    \/ \E ret \in BOOLEAN : CaptureRead(ret)
    \/ CapturePut
    \/ ProcessGet
    \/ \E faces \in AwakeFrames : ProcessDetect(faces)
SpecFrameQueue == InitFrameQueue /\ [][NextFrameQueue]_vars

\* ---- APIClient.request ----
InitRequest == BlinkInit /\ now = 0 /\ StoreInit /\ SyncIdle /\ EngineIdle /\ ApiIdle
NextRequest ==
    \/ \E script \in Scripts, authenticated \in BOOLEAN : Request(script, authenticated)
    \/ AuthChange
SpecRequest == InitRequest /\ [][NextRequest]_vars

(***************************************************************************)
(* Claims about the blink state machine                                    *)
(***************************************************************************)

\* The number of maximal runs of consecutive samples below the threshold
\* that are at least EYE_AR_CONSEC_FRAMES long and are ended by a sample at
\* or above it; run is the length of the run the sequence continues.
RECURSIVE QualifyingRuns(_, _)
QualifyingRuns(samples, run) ==
    IF samples = <<>> THEN 0
    ELSE IF Head(samples) < EYE_AR_THRESH
         THEN QualifyingRuns(Tail(samples), run + 1)
         ELSE (IF run >= EYE_AR_CONSEC_FRAMES THEN 1 ELSE 0)
              + QualifyingRuns(Tail(samples), 0)

\* Every frame fed so far showed exactly one face: the frames are a plain
\* sequence of openness values.
OneSamplePerFrame == \A k \in 1..Len(fed) : Len(fed[k]) = 1

SamplesFed == [k \in 1..Len(fed) |-> fed[k][1]]

\* C1: for every sequence of openness values fed frame by frame, the number
\* of emitted BlinkEvents equals the number of maximal below-threshold runs
\* of length >= N that are ended by a sample >= T.
C1_EventsEqualQualifyingRuns ==
    OneSamplePerFrame => Len(emitted) = QualifyingRuns(SamplesFed, 0)

(***************************************************************************)
(* Claims about the local store                                            *)
(***************************************************************************)

\* The ids of the rows of local_blink_data of one (session, interval).
RowIds(table, session_id, interval_start) ==
    {i \in DOMAIN table :
        /\ table[i].session_id = session_id
        /\ table[i].timestamp = interval_start}

\* What the rows of one (session, interval) say, whatever their ids.
RowContents(table, session_id, interval_start) ==
    {[blink_count |-> table[i].blink_count,
      confidence_score |-> table[i].confidence_score,
      eye_strain_score |-> table[i].eye_strain_score,
      synced |-> table[i].synced] : i \in RowIds(table, session_id, interval_start)}

\* C2: the blink table holds at most one row per (session_id, interval
\* start), after any sequence of store_blink_data calls.
C2_OneRowPerSessionInterval ==
    \A i, j \in DOMAIN local_blink_data :
        (/\ local_blink_data[i].session_id = local_blink_data[j].session_id
         /\ local_blink_data[i].timestamp = local_blink_data[j].timestamp)
        => i = j

\* Every interval of these events has exactly one row for the session, and
\* the row says what these events aggregate to.
AlreadyAggregated(table, session_id, blink_events) ==
    LET buckets == aggregate_blink_data(blink_events) IN
    \A k \in 1..Len(buckets) :
        /\ Cardinality(RowIds(table, session_id, buckets[k][1])) = 1
        /\ \A i \in RowIds(table, session_id, buckets[k][1]) :
              /\ table[i].blink_count = Len(buckets[k][2])
              /\ table[i].confidence_score = AvgConfidence(buckets[k][2])
              /\ table[i].eye_strain_score = calculate_eye_strain_score(buckets[k][2])

\* The rows of the intervals of these events are the same in both tables:
\* as many, saying the same.
SameRows(before, after, session_id, blink_events) ==
    LET buckets == aggregate_blink_data(blink_events) IN
    \A k \in 1..Len(buckets) :
        /\ Cardinality(RowIds(after, session_id, buckets[k][1]))
              = Cardinality(RowIds(before, session_id, buckets[k][1]))
        /\ RowContents(after, session_id, buckets[k][1])
              = RowContents(before, session_id, buckets[k][1])

\* C3: a store_blink_data call with the event set an interval was already
\* aggregated from leaves the stored row of that (session, interval)
\* unchanged: same blink count, confidence, strain score and synced flag,
\* and no extra row.
C3_ReingestionLeavesRowUnchanged ==
    [][(/\ op'.name = "store_blink_data"
        /\ op'.arg # <<>>
        /\ AlreadyAggregated(local_blink_data, op'.session_id, op'.arg))
       => SameRows(local_blink_data, local_blink_data', op'.session_id, op'.arg)]_vars

\* The sum of blink_count over the rows stored for a session.
RECURSIVE SumBlinkCount(_, _)
SumBlinkCount(session_id, ids) ==
    IF ids = {} THEN 0
    ELSE LET i == CHOOSE x \in ids : TRUE IN
         (IF local_blink_data[i].session_id = session_id
          THEN local_blink_data[i].blink_count ELSE 0)
         + SumBlinkCount(session_id, ids \ {i})

StoredBlinks(session_id) == SumBlinkCount(session_id, DOMAIN local_blink_data)

\* end_session has just run on a session the table holds.
JustEnded ==
    /\ op.name = "end_session"
    /\ op.session_id \in DOMAIN local_sessions

InPass == {t \in DOMAIN threads : threads[t].pc # "start"}

\* C5: at most one sync pass is executing at any time, under every
\* interleaving of the sync timer, the connectivity check and force_sync.
C5_SingleFlight == Cardinality(InPass) <= 1

\* Thread t records in this step the failure of the call for item i.
RecordsFailure(t, i) ==
    /\ t \in DOMAIN threads
    /\ threads[t].pc = "result"
    /\ ~threads[t].success
    /\ threads[t].items[threads[t].idx].id = i
    /\ threads' # threads

\* C6: each failed attempt on a queue item raises its retryCount by one (k
\* after k failures of a fresh item), leaves its status pending and moves
\* its nextRetryAt strictly later.
C6_FailureBacksOff ==
    [][\A t \in Tids : \A i \in DOMAIN sync_queue :
          RecordsFailure(t, i) =>
              /\ i \in DOMAIN sync_queue'
              /\ sync_queue'[i].retry_count = sync_queue[i].retry_count + 1
              /\ sync_queue'[i].status = "pending"
              /\ sync_queue'[i].next_retry > sync_queue[i].next_retry]_vars

\* C7: a sync pass started after an item's retryCount exceeded the ceiling
\* issues no network call for that item: the item is not among those the
\* pass attempts.
C7_NoAttemptPastCeiling ==
    \A t \in DOMAIN threads :
        \A k \in 1..Len(threads[t].items) :
            threads[t].items[k].id \notin threads[t].over

\* A pass that started with an item above the ceiling, still in the queue,
\* has read the queue and is through its loop.
C7_Witness ==
    \E t \in DOMAIN threads :
        /\ threads[t].pc = "flush"
        /\ \E i \in threads[t].over :
              /\ i \in DOMAIN sync_queue
              /\ sync_queue[i].retry_count > MAX_RETRIES

\* C8: the status of a queue item is pending or failed, and no item has a
\* retryCount above the ceiling and the status pending.
C8_FailedPastCeiling ==
    \A i \in DOMAIN sync_queue :
        /\ sync_queue[i].status \in {"pending", "failed"}
        /\ ~(sync_queue[i].retry_count > MAX_RETRIES /\ sync_queue[i].status = "pending")

\* The items pass t has issued its network calls for, in the order of the
\* calls.
Sent(t) ==
    SubSeq(threads[t].items, 1,
           IF threads[t].pc = "result" THEN threads[t].idx ELSE threads[t].idx - 1)

\* C9: within one sync pass the queue items are attempted in ascending
\* createdAt order: no call of a pass is for an item created before the item
\* of an earlier call of the pass, nor before an item the pass has yet to
\* attempt.
C9_AttemptsInCreationOrder ==
    \A t \in DOMAIN threads :
        /\ \A a, b \in 1..Len(Sent(t)) :
              a < b => Sent(t)[a].created_at <= Sent(t)[b].created_at
        /\ \A a \in 1..Len(Sent(t)), b \in 1..Len(threads[t].items) :
              a < b => Sent(t)[a].created_at <= threads[t].items[b].created_at

\* A pass has issued the calls for three items created at three different
\* times, oldest first, and not in the order of their ids.
C9_Witness ==
    \E t \in DOMAIN threads :
        /\ Len(Sent(t)) = 3
        /\ Sent(t)[1].created_at < Sent(t)[2].created_at
        /\ Sent(t)[2].created_at < Sent(t)[3].created_at
        /\ Sent(t)[1].id > Sent(t)[2].id

\* Thread t issues in this step the network call for the item it stands at.
IssuesCall(t) ==
    /\ t \in DOMAIN threads
    /\ threads[t].pc = "item"
    /\ t \in DOMAIN threads'
    /\ threads'[t].pc = "result"

\* C10: a sync pass attempts a queue item only when its status is pending
\* and its nextRetryAt is at or before the current time; an item that has
\* failed is not attempted again before the backoff delay after the failure
\* has passed.
C10_AttemptsOnlyWhenDue ==
    [][\A t \in Tids :
          IssuesCall(t) =>
              LET i == threads[t].items[threads[t].idx].id IN
              i \in DOMAIN sync_queue =>
                  /\ sync_queue[i].status = "pending"
                  /\ sync_queue[i].next_retry <= now
                  /\ sync_queue[i].last_attempt # None =>
                        now >= sync_queue[i].last_attempt
                               + RetryDelay(sync_queue[i].retry_count - 1)]_vars

\* Thread t records in this step the success of the call for item i.
RecordsSuccess(t, i) ==
    /\ t \in DOMAIN threads
    /\ threads[t].pc = "result"
    /\ threads[t].success
    /\ threads[t].items[threads[t].idx].id = i
    /\ threads' # threads

\* C11: once the call for a queue item has succeeded the item is deleted
\* from the queue, and no pass, later or concurrent, issues a call for an
\* item that has been deleted.
C11_SentOnce ==
    [][\A t \in Tids :
          /\ \A i \in DOMAIN sync_queue :
                RecordsSuccess(t, i) => i \notin DOMAIN sync_queue'
          /\ IssuesCall(t) =>
                threads[t].items[threads[t].idx].id \in DOMAIN sync_queue]_vars

\* Thread t records in this step the result of a call that the remote
\* answered with a 4xx status other than 401.
RecordsClientFailure(t, i) ==
    /\ RecordsFailure(t, i)
    /\ 400 <= threads[t].status_code /\ threads[t].status_code < 500
    /\ threads[t].status_code # 401

\* C12: when the remote answers the call for a queue item with a 4xx status
\* other than an auth failure, the item is marked failed and its retryCount
\* is not incremented.
C12_ClientFailureNotRetried ==
    [][\A t \in Tids : \A i \in DOMAIN sync_queue :
          RecordsClientFailure(t, i) =>
              /\ i \in DOMAIN sync_queue'
              /\ sync_queue'[i].status = "failed"
              /\ sync_queue'[i].retry_count = sync_queue[i].retry_count]_vars

(***************************************************************************)
(* Claims about APIClient.request                                          *)
(***************************************************************************)

\* Whether attempt k of the request call was made and answered 401.
Answered401(k) ==
    /\ req.response.calls >= k
    /\ req.script[k].answer.raises = "none"
    /\ req.script[k].answer.status_code = 401

\* C13: an authenticated request call makes at most one token refresh, and
\* when the call retried after a 401 is answered 401 again the request ends
\* there, without a further call, as a failure with a 4xx status.
C13_OneRefreshOneRetry ==
    (req # NoRequest /\ req.authenticated) =>
        /\ req.response.refreshes <= 1
        /\ \A k \in 1..max_retries :
              (Answered401(k) /\ Answered401(k + 1)) =>
                  /\ req.response.calls = k + 1
                  /\ ~req.response.success
                  /\ 400 <= req.response.status_code
                  /\ req.response.status_code < 500

(***************************************************************************)
(* Claims about the sync coordinator: exit paths and connectivity          *)
(***************************************************************************)

C15_NoSyncWhileOffline ==
    [][/\ (DOMAIN threads' \ DOMAIN threads # {}) => is_online'
       /\ \A t \in Tids :
             /\ IssuesCall(t) => is_online
             /\ \A i \in DOMAIN sync_queue : RecordsFailure(t, i) => is_online]_vars

\* The step records a successful probe made while the state was not online.
GoesOnline == ~is_online /\ is_online'

\* The step starts a thread for a sync pass.
StartsPass == DOMAIN threads' \ DOMAIN threads # {}

\* C16: whenever a probe succeeds while the recorded state is not online,
\* the same step starts a sync pass, unless a pass is already in progress.
C16_OnlineStartsPass ==
    [][GoesOnline => (sync_in_progress \/ StartsPass)]_vars

\* C16 as the code has it: the step that records the change to online
\* starts a sync pass if the user is authenticated and no pass is flagged in
\* progress, and starts none otherwise.
C16_OnlineStartsPassIfAuthenticated ==
    [][GoesOnline =>
          (StartsPass <=> (is_authenticated /\ ~sync_in_progress))]_vars

\* The coordinator is online and has never started a pass: the probe that
\* found the backend up came while the user was not authenticated.
C16_Witness ==
    /\ is_online
    /\ ~is_authenticated
    /\ threads = <<>>
    /\ passes_left = MaxConnectPasses

(***************************************************************************)
(* Claims about the engine's workers and lifecycle                         *)
(***************************************************************************)

\* The capture worker finishes an iteration in this step: it puts the frame
\* it has read, or drops it.
Puts ==
    /\ capture_thread.pc = "put"
    /\ capture_thread' # capture_thread

\* C17: the frame queue never holds more than FRAME_QUEUE_MAXSIZE frames;
\* when the capture worker meets a full queue the new frame is dropped, the
\* queue is left as it is and the worker goes on to its next iteration;
\* otherwise the frame is added behind the frames already queued; and the
\* queue only ever loses frames at its head, or all of them when it is
\* cleared.
C17_FrameQueueBounded ==
    /\ [](Len(frame_queue) <= FRAME_QUEUE_MAXSIZE)
    /\ [][/\ Puts =>
                /\ capture_thread'.pc = "loop"
                /\ frame_queue' =
                       IF Len(frame_queue) = FRAME_QUEUE_MAXSIZE
                       THEN frame_queue
                       ELSE Append(frame_queue, capture_thread.frame_count)
          /\ ~Puts =>
                frame_queue' \in {frame_queue, <<>>}
                                    \cup (IF frame_queue = <<>> THEN {}
                                          ELSE {Tail(frame_queue)})]_vars

\* The queue is full and the capture worker has dropped the frame it read
\* last: the newest frame of the queue is an older one.
C17_Witness ==
    /\ Len(frame_queue) = FRAME_QUEUE_MAXSIZE
    /\ capture_thread.pc = "loop"
    /\ frame_queue[FRAME_QUEUE_MAXSIZE] < capture_thread.frame_count
    /\ is_running

\* C18: no two emitted BlinkEvents have timestamps closer together than the
\* minimum inter-blink interval.
C18_EventsApart ==
    \A a, b \in 1..Len(emitted) :
        a < b =>
            capture_time(emitted[b].frame_number)
                - capture_time(emitted[a].frame_number) >= MIN_BLINK_INTERVAL_MS

\* The step is a start_tracking call that finds the camera cannot be opened.
OpenFails == camera' = "unopened" /\ camera # "unopened"

\* C19: a start_tracking call on a stopped engine that cannot open the
\* camera returns failure, leaves is_running false and starts no worker; and
\* a camera that could not be opened is opened only by a later
\* start_tracking call.
C19_FailedStartLeavesEngineStopped ==
    [][/\ (OpenFails /\ ~is_running) =>
             /\ main_thread'.last = "start_tracking"
             /\ main_thread'.ret = "False"
             /\ ~is_running'
             /\ capture_thread' = capture_thread
             /\ process_thread' = process_thread
       /\ (camera = "unopened" /\ camera' = "open") =>
             /\ main_thread'.last = "start_tracking"
             /\ main_thread'.ret = "True"]_vars

\* start_tracking has failed to open the camera on an engine that had been
\* running and was stopped: the engine is stopped and has no live worker.
C19_Witness ==
    /\ camera = "unopened"
    /\ main_thread = [pc |-> "idle", last |-> "start_tracking", ret |-> "False"]
    /\ ~is_running
    /\ capture_thread.pc = "done"
    /\ process_thread.pc = "done"

\* stop_tracking has returned and no start_tracking call has followed.
Stopped == main_thread.pc = "idle" /\ main_thread.last = "stop_tracking"

\* C20: after stop_tracking has returned is_running is false, the camera
\* handle is released and forgotten, the frame queue and the blink queue
\* are empty, and no worker has read the released camera.
C20_StoppedAndDrained ==
    Stopped =>
        /\ ~is_running
        /\ camera = "None"
        /\ frame_queue = <<>>
        /\ blink_queue = <<>>
        /\ capture_thread.pc # "crashed"

(***************************************************************************)
(* Claims about the sessions and the rows of the local store               *)
(***************************************************************************)

\* C21: once a session has its end_time, no later operation changes its
\* end_time or its total_blinks.
C21_EndTimeSetOnce ==
    [][\A s \in DOMAIN local_sessions :
          local_sessions[s].end_time # None =>
              /\ s \in DOMAIN local_sessions'
              /\ local_sessions'[s].end_time = local_sessions[s].end_time
              /\ local_sessions'[s].total_blinks = local_sessions[s].total_blinks]_vars

\* C25: a frame without a usable face is treated as an open sample: it
\* leaves the counter and the blink total as a frame with one face whose
\* eye aspect ratio is at the threshold would, so that the closed run before
\* it is ended.
C25_NoFaceEndsRun ==
    [][fed' = Append(fed, <<>>) =>
          LET open == detect_blink(<<EYE_AR_THRESH>>, Len(fed) + 1) IN
          /\ COUNTER' = open.COUNTER
          /\ TOTAL_BLINKS' = open.TOTAL_BLINKS]_vars

\* The number of events of a list whose timestamp lies in the minute that
\* starts at interval_start.
EventsIn(blink_events, interval_start) ==
    Cardinality({i \in 1..Len(blink_events) :
                    (blink_events[i].timestamp \div 60) * 60 = interval_start})

RECURSIVE SumBlinkCounts(_)
SumBlinkCounts(buckets) ==
    IF buckets = <<>> THEN 0
    ELSE Len(Head(buckets)[2]) + SumBlinkCounts(Tail(buckets))

\* The rows of local_blink_data a step wrote: the new ones and the changed ones.
Written ==
    {i \in DOMAIN local_blink_data' :
        i \notin DOMAIN local_blink_data \/ local_blink_data'[i] # local_blink_data[i]}

\* C27: a store_blink_data call puts every event in exactly one bucket, the
\* one of floor(timestamp / 60) * 60: the buckets have different keys, the
\* blink_count of every row the call writes is the number of events passed
\* that lie in the row's minute, and the blink counts of the buckets sum to
\* the number of events passed.
C27_EveryEventInOneBucket ==
    [][op'.name = "store_blink_data" =>
          LET buckets == aggregate_blink_data(op'.arg) IN
          /\ \A j, k \in 1..Len(buckets) : buckets[j][1] = buckets[k][1] => j = k
          /\ \A k \in 1..Len(buckets) :
                Len(buckets[k][2]) = EventsIn(op'.arg, buckets[k][1])
          /\ SumBlinkCounts(buckets) = Len(op'.arg)
          /\ \A i \in Written :
                /\ local_blink_data'[i].session_id = op'.session_id
                /\ local_blink_data'[i].blink_count =
                       EventsIn(op'.arg, local_blink_data'[i].timestamp)]_vars

\* A call with events of two minutes has written one row for each minute,
\* and a call with two events of one minute a row that counts both.
C27_Witness ==
    /\ op.name = "store_blink_data"
    /\ \/ /\ op.arg = <<EventB, EventA>>
          /\ \E i, j \in DOMAIN local_blink_data :
                /\ local_blink_data[i].timestamp = 0
                /\ local_blink_data[j].timestamp = 60
                /\ local_blink_data[i].session_id = op.session_id
                /\ local_blink_data[j].session_id = op.session_id
       \/ /\ op.arg = <<EventA, EventA>>
          /\ \E i \in DOMAIN local_blink_data :
                /\ local_blink_data[i].blink_count = 2
                /\ local_blink_data[i].session_id = op.session_id

\* The interval starts of the buckets a store_blink_data call makes of its events.
IntervalsOf(blink_events) ==
    {(blink_events[i].timestamp \div 60) * 60 : i \in 1..Len(blink_events)}

\* C28: store_blink_data never overwrites a row of another (session,
\* interval): after a call a row is present for each interval its events
\* fall in, and every row stored before for another session or interval is
\* unchanged.
C28_NoRowOverwritten ==
    [][op'.name = "store_blink_data" =>
          /\ \A t \in IntervalsOf(op'.arg) :
                \E i \in DOMAIN local_blink_data' :
                    /\ local_blink_data'[i].session_id = op'.session_id
                    /\ local_blink_data'[i].timestamp = t
          /\ \A i \in DOMAIN local_blink_data :
                (\/ local_blink_data[i].session_id # op'.session_id
                 \/ local_blink_data[i].timestamp \notin IntervalsOf(op'.arg))
                => /\ i \in DOMAIN local_blink_data'
                   /\ local_blink_data'[i] = local_blink_data[i]]_vars

\* C22: every database operation runs while its thread holds db_lock, so
\* that no two of them overlap: a thread with an open connection is the
\* holder of the lock.
C22_ConnectionsUnderLock ==
    \A thread \in DbThreads :
        db_calls[thread].pc = "connected" => db_lock = thread

\* C23: once initialize_encryption has succeeded, a session is written with
\* its device id encrypted: the stored value is not the raw device id.
C23_DeviceIdEncrypted ==
    [][encryption_key # "None" =>
          \A s \in DOMAIN local_sessions' :
              s \notin DOMAIN local_sessions =>
                  local_sessions'[s].device_id \notin DeviceIds]_vars

\* C30: cleanup_old_data never deletes unsynced data: every blink row and
\* every session that is not synced is there unchanged after the call, the
\* rows that stay are unchanged, and a row that goes was synced and older
\* than the cutoff, for every days_to_keep.
C30_CleanupKeepsUnsynced ==
    [][op'.name = "cleanup_old_data" =>
          LET cutoff_time == now' * TICK_SECONDS - op'.arg[1] * SECONDS_PER_DAY
              Kept(before, after) ==
                  /\ DOMAIN after \subseteq DOMAIN before
                  /\ \A i \in DOMAIN after : after[i] = before[i]
                  /\ \A i \in DOMAIN before :
                        i \notin DOMAIN after
                        => /\ before[i].synced = TRUE
                           /\ before[i].created_at * TICK_SECONDS < cutoff_time
          IN  /\ Kept(local_blink_data, local_blink_data')
              /\ Kept(local_sessions, local_sessions')]_vars

\* A cleanup has deleted a blink row and a session and has left an unsynced
\* blink row and an unsynced session that are older than its cutoff.
C30_Witness ==
    /\ op.name = "cleanup_old_data"
    /\ op.arg[3] > 0
    /\ op.arg[4] > 0
    /\ \E i \in DOMAIN local_blink_data :
          /\ local_blink_data[i].synced = FALSE
          /\ local_blink_data[i].created_at * TICK_SECONDS < op.arg[2]
    /\ \E i \in DOMAIN local_sessions :
          /\ local_sessions[i].synced = FALSE
          /\ local_sessions[i].created_at * TICK_SECONDS < op.arg[2]

(***************************************************************************)
(* Claims about the workers of the engine                                  *)
(***************************************************************************)

\* C24: while the engine is running no failure of a frame ends a worker:
\* the capture worker and the processing worker of a running engine are
\* alive.
C24_WorkersSurviveFrameFailures ==
    is_running => (is_alive(capture_thread) /\ is_alive(process_thread))

\* A step in which a worker delivers a BlinkEvent.
Delivers == Len(emitted') = Len(emitted) + 1

\* C26: the BlinkEvents delivered within a tracking session have
\* non-decreasing frame numbers and timestamps: an event is never delivered
\* after an event of a later frame of the session.
C26_EventsInOrder ==
    [][(Delivers /\ emitted # <<>>) =>
          /\ emitted[Len(emitted)].frame_number
                 <= emitted'[Len(emitted')].frame_number
          /\ capture_time(emitted[Len(emitted)].frame_number)
                 <= capture_time(emitted'[Len(emitted')].frame_number)]_vars

\* C29: at most one capture worker and at most one processing worker are
\* alive.
C29_OneWorkerOfEachKind ==
    /\ ~(is_alive(capture_thread) /\ is_alive(old_capture_thread))
    /\ ~(is_alive(process_thread) /\ is_alive(old_process_thread))

====
